---- MODULE Spec2Model ----
(***************************************************************************)
(* RoboSim API (src/api/main.py): conversion of LeRobot episode JSON to a  *)
(* columnar table plus sidecar metadata, and its upload to a dataset hub.  *)
(*                                                                         *)
(* Two request handlers are modelled:                                      *)
(*   upload_dataset      one action per statement group of the handler,    *)
(*                       so that the order of the external calls and the   *)
(*                       content of the scratch directory are observable;  *)
(*   convert_to_parquet  one action for the whole handler.                 *)
(*                                                                         *)
(* Python values are encoded as follows.                                   *)
(*   dict            a function whose domain is the set of present keys    *)
(*   list            a sequence                                            *)
(*   x or None       Some(x) = <<x>> or None = <<>>                        *)
(*   number          [kind, num, den]: the rational num/den, kind "int"    *)
(*                   or "float" in Python, and the Arrow type name once    *)
(*                   stored in an Arrow array                              *)
(*                                                                         *)
(* The calls into pyarrow, huggingface_hub and the file system are         *)
(* modelled by their documented behaviour; a call that can fail for        *)
(* reasons outside the request (hub, disk) fails nondeterministically.     *)
(***************************************************************************)
EXTENDS Integers, Sequences, FiniteSets, TLC

\* Bounds of the explored inputs.
MaxEpisodes == 2
MaxTotalFrames == 2

----------------------------------------------------------------------------
\* Optional values.
None == <<>>
Some(x) == <<x>>
IsSome(o) == Len(o) = 1
Get(o) == o[1]

\* Numbers.
RECURSIVE GCD(_, _)
GCD(a, b) == IF b = 0 THEN a ELSE GCD(b, a % b)

IntNum(n) == [kind |-> "int", num |-> n, den |-> 1]
FloatNum(n, d) == [kind |-> "float", num |-> n \div GCD(n, d), den |-> d \div GCD(n, d)]

\* float(v)
PyFloat(v) == [kind |-> "float", num |-> v.num, den |-> v.den]

\* [float(v) for v in val]
FloatList(val) == [i \in 1..Len(val) |-> PyFloat(val[i])]

\* frame_idx / 30.0
DefaultTimestamp(frame_idx) == FloatNum(frame_idx, 30)

\* len() of a list
PyLen(list) == Len(list)

RECURSIVE SumSeq(_)
SumSeq(s) == IF s = <<>> THEN 0 ELSE Head(s) + SumSeq(Tail(s))

\* dict.get(key, default)
DictGet(dict, key, default) == IF key \in DOMAIN dict THEN dict[key] ELSE default

----------------------------------------------------------------------------
\* Inputs.

\* Frames as the recorder produces them: with a timestamp, both vectors and
\* an image; with a shorter state vector and no action; and with no
\* observation, no timestamp and a shorter action given as target positions.
FrameFull ==
    [timestamp |-> FloatNum(1, 2),
     observation |-> [jointPositions |-> <<IntNum(1), IntNum(2)>>, image |-> "png"],
     action |-> [jointPositions |-> <<FloatNum(3, 2), IntNum(4)>>]]
FrameShortState ==
    [timestamp |-> IntNum(1),
     observation |-> [jointPositions |-> <<IntNum(5)>>]]
FrameTarget ==
    [action |-> [targetPositions |-> <<IntNum(8)>>]]

FrameKinds == {FrameFull, FrameShortState, FrameTarget}

\* Episode.metadata: with or without a languageInstruction.
MetadataKinds ==
    {[robot |-> "arm"],
     [languageInstruction |-> "pick"],
     [languageInstruction |-> "place"]}

\* Episode indices as recorded: increasing, with gaps where the recorder
\* discarded an episode.
EpisodeIndexAt(pos) == 2 * (pos - 1)

FrameLists(n) == UNION {[1..m -> FrameKinds] : m \in 0..n}

\* The episode lists with at most n episodes and at most budget frames in
\* total, the first of them at position pos of the request.
RECURSIVE EpisodeLists(_, _, _)
EpisodeLists(pos, n, budget) ==
    IF n = 0 THEN {<<>>}
    ELSE {<<>>} \cup
         UNION {UNION {{<<[episodeIndex |-> EpisodeIndexAt(pos),
                            frames |-> fs,
                            metadata |-> md]>> \o rest :
                          rest \in EpisodeLists(pos + 1, n - 1, budget - Len(fs))} :
                       md \in MetadataKinds} :
                fs \in FrameLists(budget)}

Requests == EpisodeLists(1, MaxEpisodes, MaxTotalFrames)

\* DatasetMetadata of the upload request.
DefaultFps == 30
RequestMetadata == [robotType |-> "so-101", fps |-> DefaultFps]
RepoName == "demo"
UserName == "alice"

----------------------------------------------------------------------------
\* Arrow (pyarrow) types and arrays.
Int64 == [id |-> "int64"]
Float64 == [id |-> "double"]
FixedSizeList(dim) == [id |-> "fixed_size_list", value |-> "float", size |-> dim]

ArrowNumber(id, v) == [kind |-> id, num |-> v.num, den |-> v.den]
ArrowFloat(v) == ArrowNumber("float", v)

\* The value an array of the given type stores for a Python value.
ArrowCast(type, val) ==
    CASE type.id = "int64" -> val
      [] type.id = "double" -> ArrowNumber("double", val)
      [] type.id = "fixed_size_list" -> [i \in 1..Len(val) |-> ArrowFloat(val[i])]

\* pa.array(values, type=type) raises ArrowInvalid when a list of a
\* fixed-size list array has not the declared size; None becomes a null.
PaArrayRaises(values, type) ==
    /\ type.id = "fixed_size_list"
    /\ \E i \in 1..Len(values) :
         IsSome(values[i]) /\ PyLen(Get(values[i])) # type.size

PaArray(values, type) ==
    [i \in 1..Len(values) |->
        IF IsSome(values[i]) THEN Some(ArrowCast(type, Get(values[i]))) ELSE None]

\* Exceptions and their str().
HTTPException(status_code, detail) ==
    [type |-> "HTTPException", status_code |-> status_code, detail |-> detail]
ArrowInvalid == [type |-> "ArrowInvalid", detail |-> "Length of item not correct"]
OSError == [type |-> "OSError", detail |-> "No space left on device"]
HubError == [type |-> "HfHubHTTPError", detail |-> "hub request failed"]

Str(e) ==
    IF e.type = "HTTPException"
    THEN ToString(e.status_code) \o ": " \o e.detail
    ELSE e.detail

----------------------------------------------------------------------------
\* upload_dataset: rows, episode metadata and tasks (the loop over episodes).
DefaultTask == "manipulation task"

TaskOf(episode) == DictGet(episode.metadata, "languageInstruction", DefaultTask)

UploadTaskIndex == 0

UploadRow(ep_idx, frame_idx, frame) ==
    LET obs == DictGet(frame, "observation", <<>>)
        action == DictGet(frame, "action", <<>>)
        row == [episode_index |-> ep_idx,
                frame_index |-> frame_idx,
                timestamp |-> DictGet(frame, "timestamp", DefaultTimestamp(frame_idx)),
                task_index |-> UploadTaskIndex]
        state == IF "jointPositions" \in DOMAIN obs
                 THEN "observation.state" :> obs["jointPositions"] ELSE <<>>
        image == IF "image" \in DOMAIN obs
                 THEN "observation.image" :> obs["image"] ELSE <<>>
        act == IF "jointPositions" \in DOMAIN action
               THEN "action" :> action["jointPositions"]
               ELSE IF "targetPositions" \in DOMAIN action
                    THEN "action" :> action["targetPositions"] ELSE <<>>
    IN  act @@ image @@ state @@ row

\* Variant: frame_index counted from 1.
UploadEpisodeRows_OneBased(episode) ==
    [j \in 1..Len(episode.frames) |->
        UploadRow(episode.episodeIndex, j, episode.frames[j])]

UploadEpisodeRows(episode) ==
    [j \in 1..Len(episode.frames) |->
        UploadRow(episode.episodeIndex, j - 1, episode.frames[j])]

RECURSIVE UploadAllRows(_)
UploadAllRows(episodes) ==
    IF episodes = <<>> THEN <<>>
    ELSE UploadEpisodeRows(Head(episodes)) \o UploadAllRows(Tail(episodes))

EpisodeMeta(episode) ==
    [episode_index |-> episode.episodeIndex,
     tasks |-> <<TaskOf(episode)>>,
     length |-> PyLen(episode.frames)]

EpisodeMetadata(episodes) == [i \in 1..Len(episodes) |-> EpisodeMeta(episodes[i])]

TaskSet(episodes) == {TaskOf(episodes[i]) : i \in 1..Len(episodes)}

\* upload_dataset: schema from the first row.
ScalarFields ==
    <<<<"episode_index", Int64>>, <<"frame_index", Int64>>,
      <<"timestamp", Float64>>, <<"task_index", Int64>>>>

SchemaFields(all_rows) ==
    LET sample_row == all_rows[1]
        state == IF "observation.state" \in DOMAIN sample_row
                 THEN <<<<"observation.state",
                          FixedSizeList(PyLen(sample_row["observation.state"]))>>>>
                 ELSE <<>>
        act == IF "action" \in DOMAIN sample_row
               THEN <<<<"action", FixedSizeList(PyLen(sample_row["action"]))>>>>
               ELSE <<>>
    IN  ScalarFields \o state \o act

FieldNames(schema_fields) == [i \in 1..Len(schema_fields) |-> schema_fields[i][1]]
FieldTypeOf(schema_fields, name) ==
    schema_fields[CHOOSE i \in 1..Len(schema_fields) : schema_fields[i][1] = name][2]

\* isinstance(val, list): the vectors are the values that are lists.
IsListField(field_name) == field_name \in {"observation.state", "action"}

UploadCell(row, field_name) ==
    IF field_name \in DOMAIN row
    THEN IF IsListField(field_name)
         THEN Some(FloatList(row[field_name]))
         ELSE Some(row[field_name])
    ELSE None

\* Variant: a row without the field adds nothing to the column.
UploadColumns_SkipMissing(schema_fields, all_rows) ==
    [field_name \in {schema_fields[i][1] : i \in 1..Len(schema_fields)} |->
        LET cells == [r \in 1..Len(all_rows) |-> UploadCell(all_rows[r], field_name)]
        IN  SelectSeq(cells, IsSome)]

UploadColumns(schema_fields, all_rows) ==
    [field_name \in {schema_fields[i][1] : i \in 1..Len(schema_fields)} |->
        [r \in 1..Len(all_rows) |-> UploadCell(all_rows[r], field_name)]]

\* The arrays of the table: one per schema field with a non-empty column.
UploadTableRaises(schema_fields, columns) ==
    \E i \in 1..Len(schema_fields) :
        /\ columns[schema_fields[i][1]] # <<>>
        /\ PaArrayRaises(columns[schema_fields[i][1]], schema_fields[i][2])

UploadTable(schema_fields, columns) ==
    LET NonEmpty(field) == columns[field[1]] # <<>>
        kept == SelectSeq(schema_fields, NonEmpty)
        names == FieldNames(kept)
    IN  [names |-> names,
         columns |-> [name \in {names[i] : i \in 1..Len(names)} |->
                         PaArray(columns[name], FieldTypeOf(schema_fields, name))]]

----------------------------------------------------------------------------
\* upload_dataset: the sidecar files.
ParquetPath == "data/train-00000-of-00001.parquet"
InfoPath == "meta/info.json"
EpisodesPath == "meta/episodes.jsonl"
TasksPath == "meta/tasks.jsonl"
ReadmePath == "README.md"

PlaceholderDim == 6

TotalFrames(episodes) ==
    SumSeq([i \in 1..Len(episodes) |-> PyLen(episodes[i].frames)])

\* [len(all_rows[0].get(field, []))] if all_rows else [6]
FeatureShape(all_rows, field_name) ==
    IF all_rows # <<>>
    THEN <<PyLen(DictGet(all_rows[1], field_name, <<>>))>>
    ELSE <<PlaceholderDim>>

\* Variant: the split ends at the frame count.
SplitTrain_Frames(episodes) == "0:" \o ToString(TotalFrames(episodes))

SplitTrain(episodes) == "0:" \o ToString(PyLen(episodes))

Info(episodes, metadata, all_rows) ==
    [codebase_version |-> "v3.0",
     robot_type |-> metadata.robotType,
     fps |-> metadata.fps,
     total_episodes |-> PyLen(episodes),
     total_frames |-> TotalFrames(episodes),
     features |->
        [state |-> [dtype |-> "float32",
                    shape |-> FeatureShape(all_rows, "observation.state")],
         action |-> [dtype |-> "float32",
                     shape |-> FeatureShape(all_rows, "action")]],
     splits |-> [train |-> SplitTrain(episodes)]]

\* Iterating a set of str visits its members in an order fixed by their
\* hashes, which are salted per process: any order can come out.
SetIterationOrders(set) ==
    {order \in [1..Cardinality(set) -> set] :
        \A i, j \in 1..Cardinality(set) : order[i] = order[j] => i = j}

\* for i, task in enumerate(tasks)
TasksJsonl(order) == [i \in 1..Len(order) |-> [task_index |-> i - 1, task |-> order[i]]]

Readme(episodes, metadata, repo_id) ==
    [title |-> RepoName,
     robot_type |-> metadata.robotType,
     total_episodes |-> PyLen(episodes),
     total_frames |-> TotalFrames(episodes),
     fps |-> metadata.fps,
     repo_id |-> repo_id]

RepoId == UserName \o "/" \o RepoName

----------------------------------------------------------------------------
\* convert_to_parquet.
ConvertRow(ep_idx, frame_idx, frame) ==
    LET obs == DictGet(frame, "observation", <<>>)
        action == DictGet(frame, "action", <<>>)
        row == [episode_index |-> ep_idx,
                frame_index |-> frame_idx,
                timestamp |-> DictGet(frame, "timestamp", DefaultTimestamp(frame_idx))]
        state == IF "jointPositions" \in DOMAIN obs
                 THEN "observation.state" :> obs["jointPositions"] ELSE <<>>
        act == IF "jointPositions" \in DOMAIN action
               THEN "action" :> action["jointPositions"] ELSE <<>>
    IN  act @@ state @@ row

ConvertEpisodeRows(episode) ==
    [j \in 1..Len(episode.frames) |->
        ConvertRow(episode.episodeIndex, j - 1, episode.frames[j])]

RECURSIVE ConvertAllRows(_)
ConvertAllRows(episodes) ==
    IF episodes = <<>> THEN <<>>
    ELSE ConvertEpisodeRows(Head(episodes)) \o ConvertAllRows(Tail(episodes))

\* r.get(field, []): the value of a row without the field is the empty list.
ConvertVectorValue(row, field_name) == DictGet(row, field_name, <<>>)

ConvertNames(all_rows) ==
    <<"episode_index", "frame_index", "timestamp">>
    \o (IF "observation.state" \in DOMAIN all_rows[1] THEN <<"observation.state">> ELSE <<>>)
    \o (IF "action" \in DOMAIN all_rows[1] THEN <<"action">> ELSE <<>>)

ConvertColumns(all_rows) ==
    LET names == ConvertNames(all_rows)
    IN  [name \in {names[i] : i \in 1..Len(names)} |->
            [r \in 1..Len(all_rows) |->
                IF IsListField(name)
                THEN ConvertVectorValue(all_rows[r], name)
                ELSE all_rows[r][name]]]

\* pa.table(columns) infers the type of each column: Python ints are int64,
\* and double as soon as the column holds a float; a column of lists is a
\* variable-size list of the type inferred for the items, so lists of any
\* length fit, the empty list included.
InferredNumberType(kinds) == IF "float" \in kinds THEN "double" ELSE "int64"

PaInferredArray(name, values) ==
    IF name = "timestamp"
    THEN LET id == InferredNumberType({values[r].kind : r \in 1..Len(values)})
         IN  [r \in 1..Len(values) |-> Some(ArrowNumber(id, values[r]))]
    ELSE IF IsListField(name)
    THEN LET id == InferredNumberType(
                      UNION {{values[r][i].kind : i \in 1..Len(values[r])} :
                             r \in 1..Len(values)})
         IN  [r \in 1..Len(values) |->
                Some([i \in 1..Len(values[r]) |-> ArrowNumber(id, values[r][i])])]
    ELSE [r \in 1..Len(values) |-> Some(values[r])]

ConvertTable(all_rows) ==
    LET columns == ConvertColumns(all_rows)
    IN  [names |-> ConvertNames(all_rows),
         columns |-> [name \in DOMAIN columns |-> PaInferredArray(name, columns[name])]]

\* buffer.getvalue().hex() of the table written by pq.write_table
ParquetHex(table) == [encoding |-> "hex", format |-> "parquet", table |-> table]

\* except Exception as e: raise HTTPException(status_code=500, detail=str(e))
ConvertErrorResponse(e) == [status |-> 500, detail |-> Str(e)]

\* The response of the whole handler. The HTTPException raised for an empty
\* all_rows is raised inside the try block, so the except clause catches it.
ConvertResponse(episodes) ==
    LET all_rows == ConvertAllRows(episodes)
    IN  IF all_rows = <<>>
        THEN ConvertErrorResponse(HTTPException(400, "No frames to convert"))
        ELSE [status |-> 200,
              success |-> TRUE,
              parquet_base64 |-> ParquetHex(ConvertTable(all_rows)),
              num_rows |-> PyLen(all_rows)]

----------------------------------------------------------------------------
\* The server.
VARIABLES
    pc,                 \* position in the handler of the current request
    request,            \* the request being served
    all_rows,           \* upload_dataset: local all_rows
    episode_metadata,   \* upload_dataset: local episode_metadata
    tasks,              \* upload_dataset: local tasks
    scratch,            \* the TemporaryDirectory: existence and files
    calls,              \* the calls made to the hub so far, in order
    uploaded,           \* what upload_folder was given, if it was invoked
    raised_at,          \* the statement that raised, if one did
    response            \* the response of the request, once it returned

vars == <<pc, request, all_rows, episode_metadata, tasks, scratch, calls, uploaded,
          raised_at, response>>

NoRequest == [endpoint |-> "none", episodes |-> <<>>]
NoScratch == [exists |-> FALSE, files |-> <<>>]

Init ==
    /\ pc = "idle"
    /\ request = NoRequest
    /\ all_rows = <<>>
    /\ episode_metadata = <<>>
    /\ tasks = {}
    /\ scratch = NoScratch
    /\ calls = <<>>
    /\ uploaded = None
    /\ raised_at = "none"
    /\ response = None

\* The response for an exception that leaves the handler: an HTTPException
\* passes unchanged, any other exception becomes a 500 with its str().
ErrorResponse(e) ==
    IF e.type = "HTTPException"
    THEN [status |-> e.status_code, detail |-> e.detail]
    ELSE [status |-> 500, detail |-> Str(e)]

\* Variant: the scratch directory is not removed when an exception leaves
\* the handler (mkdtemp instead of the TemporaryDirectory context manager).
Raise_KeepScratch(e) ==
    /\ pc' = "done"
    /\ raised_at' = pc
    /\ response' = Some(ErrorResponse(e))
    /\ scratch' = scratch
    /\ all_rows' = <<>>
    /\ episode_metadata' = <<>>
    /\ tasks' = {}

\* An exception leaves the handler: the with block, if entered, removes the
\* scratch directory, the locals are gone, and the response is the error.
Raise(e) ==
    /\ pc' = "done"
    /\ raised_at' = pc
    /\ response' = Some(ErrorResponse(e))
    /\ scratch' = NoScratch
    /\ all_rows' = <<>>
    /\ episode_metadata' = <<>>
    /\ tasks' = {}

WriteFile(path, content) ==
    scratch' = [scratch EXCEPT !.files = (path :> content) @@ @]

\* POST /api/dataset/upload arrives.
ReceiveUpload ==
    /\ pc = "idle"
    /\ \E episodes \in Requests :
         request' = [endpoint |-> "upload", episodes |-> episodes,
                     metadata |-> RequestMetadata]
    /\ pc' = "whoami"
    /\ UNCHANGED <<all_rows, episode_metadata, tasks, scratch, calls, uploaded, raised_at,
                   response>>

\* hf_api.whoami()
Whoami ==
    /\ pc = "whoami"
    /\ calls' = Append(calls, "whoami")
    /\ \/ /\ pc' = "create_repo"
          /\ UNCHANGED <<all_rows, episode_metadata, tasks, scratch, raised_at, response>>
       \/ Raise(HTTPException(401, "Invalid HuggingFace token: " \o Str(HubError)))
    /\ UNCHANGED <<request, uploaded>>

\* create_repo(...)
CreateRepo ==
    /\ pc = "create_repo"
    /\ calls' = Append(calls, "create_repo")
    /\ \/ /\ pc' = "mkdir"
          /\ UNCHANGED <<all_rows, episode_metadata, tasks, scratch, raised_at, response>>
       \/ Raise(HTTPException(500, "Failed to create repo: " \o Str(HubError)))
    /\ UNCHANGED <<request, uploaded>>

\* with tempfile.TemporaryDirectory() ...: mkdir data, meta
MakeScratch ==
    /\ pc = "mkdir"
    /\ \/ /\ scratch' = [exists |-> TRUE, files |-> <<>>]
          /\ pc' = "rows"
          /\ UNCHANGED <<all_rows, episode_metadata, tasks, raised_at, response>>
       \/ Raise(OSError)
    /\ UNCHANGED <<request, calls, uploaded>>

\* for episode in request.episodes: ...
BuildRows ==
    /\ pc = "rows"
    /\ all_rows' = UploadAllRows(request.episodes)
    /\ episode_metadata' = EpisodeMetadata(request.episodes)
    /\ tasks' = TaskSet(request.episodes)
    /\ pc' = "parquet"
    /\ UNCHANGED <<request, scratch, calls, uploaded, raised_at, response>>

\* if all_rows: ... pq.write_table(table, parquet_path)
WriteParquet ==
    /\ pc = "parquet"
    /\ IF all_rows # <<>>
       THEN LET schema_fields == SchemaFields(all_rows)
                columns == UploadColumns(schema_fields, all_rows)
            IN  IF UploadTableRaises(schema_fields, columns)
                THEN Raise(ArrowInvalid)
                ELSE \/ /\ WriteFile(ParquetPath, UploadTable(schema_fields, columns))
                        /\ pc' = "info"
                        /\ UNCHANGED <<all_rows, episode_metadata, tasks, raised_at, response>>
                     \/ Raise(OSError)
       ELSE /\ pc' = "info"
            /\ UNCHANGED <<all_rows, episode_metadata, tasks, scratch, raised_at, response>>
    /\ UNCHANGED <<request, calls, uploaded>>

\* meta/info.json
WriteInfo ==
    /\ pc = "info"
    /\ \/ /\ WriteFile(InfoPath, Info(request.episodes, request.metadata, all_rows))
          /\ pc' = "episodes"
          /\ UNCHANGED <<all_rows, episode_metadata, tasks, raised_at, response>>
       \/ Raise(OSError)
    /\ UNCHANGED <<request, calls, uploaded>>

\* meta/episodes.jsonl
WriteEpisodes ==
    /\ pc = "episodes"
    /\ \/ /\ WriteFile(EpisodesPath, episode_metadata)
          /\ pc' = "tasks"
          /\ UNCHANGED <<all_rows, episode_metadata, tasks, raised_at, response>>
       \/ Raise(OSError)
    /\ UNCHANGED <<request, calls, uploaded>>

\* meta/tasks.jsonl
WriteTasks ==
    /\ pc = "tasks"
    /\ \/ /\ \E order \in SetIterationOrders(tasks) :
               WriteFile(TasksPath, TasksJsonl(order))
          /\ pc' = "readme"
          /\ UNCHANGED <<all_rows, episode_metadata, tasks, raised_at, response>>
       \/ Raise(OSError)
    /\ UNCHANGED <<request, calls, uploaded>>

\* README.md
WriteReadme ==
    /\ pc = "readme"
    /\ \/ /\ WriteFile(ReadmePath, Readme(request.episodes, request.metadata, RepoId))
          /\ pc' = "upload"
          /\ UNCHANGED <<all_rows, episode_metadata, tasks, raised_at, response>>
       \/ Raise(OSError)
    /\ UNCHANGED <<request, calls, uploaded>>

\* hf_api.upload_folder(folder_path=tmpdir, ...)
UploadFolder ==
    /\ pc = "upload"
    /\ calls' = Append(calls, "upload_folder")
    /\ uploaded' = Some(scratch.files)
    /\ \/ /\ pc' = "return"
          /\ UNCHANGED <<all_rows, episode_metadata, tasks, scratch, raised_at, response>>
       \/ Raise(HubError)
    /\ UNCHANGED request

\* The with block ends and the handler returns UploadResponse(success=True).
ReturnUpload ==
    /\ pc = "return"
    /\ scratch' = NoScratch
    /\ all_rows' = <<>>
    /\ episode_metadata' = <<>>
    /\ tasks' = {}
    /\ response' = Some([status |-> 200,
                         success |-> TRUE,
                         repoUrl |-> "https://huggingface.co/datasets/" \o RepoId])
    /\ pc' = "done"
    /\ UNCHANGED <<request, calls, uploaded, raised_at>>

\* POST /api/dataset/convert: the whole handler.
ConvertToParquet ==
    /\ pc = "idle"
    /\ \E episodes \in Requests :
         /\ request' = [endpoint |-> "convert", episodes |-> episodes]
         /\ response' = Some(ConvertResponse(episodes))
    /\ pc' = "done"
    /\ UNCHANGED <<all_rows, episode_metadata, tasks, scratch, calls, uploaded, raised_at>>

Next ==
    \/ ReceiveUpload
    \/ Whoami
    \/ CreateRepo
    \/ MakeScratch
    \/ BuildRows
    \/ WriteParquet
    \/ WriteInfo
    \/ WriteEpisodes
    \/ WriteTasks
    \/ WriteReadme
    \/ UploadFolder
    \/ ReturnUpload
    \/ ConvertToParquet

Spec == Init /\ [][Next]_vars

----------------------------------------------------------------------------
\* Properties.

Range(seq) == {seq[i] : i \in 1..Len(seq)}

Endpoint == request.endpoint
Episodes == request.episodes

InScratch(path) == scratch.exists /\ path \in DOMAIN scratch.files
HandedOver(path) == IsSome(uploaded) /\ path \in DOMAIN Get(uploaded)

\* The tables produced so far: written to the scratch directory or handed to
\* upload_folder by upload_dataset, returned by convert_to_parquet.
UploadTables ==
    (IF InScratch(ParquetPath) THEN {scratch.files[ParquetPath]} ELSE {})
    \cup (IF HandedOver(ParquetPath) THEN {Get(uploaded)[ParquetPath]} ELSE {})
ConvertTables ==
    IF Endpoint = "convert" /\ IsSome(response) /\ Get(response).status = 200
    THEN {Get(response).parquet_base64.table}
    ELSE {}
ProducedTables == UploadTables \cup ConvertTables

\* The rows of the request as the serving handler builds them.
RequestRows ==
    IF Endpoint = "convert" THEN ConvertAllRows(Episodes) ELSE UploadAllRows(Episodes)

VectorFields == {"observation.state", "action"}

\* Per row of the table, in order: the frame's position in its episode, the
\* index of its episode, the task text of its episode.
RECURSIVE ExpectedFrameIndex(_)
ExpectedFrameIndex(episodes) ==
    IF episodes = <<>> THEN <<>>
    ELSE [j \in 1..Len(Head(episodes).frames) |-> j - 1]
         \o ExpectedFrameIndex(Tail(episodes))

RECURSIVE ExpectedEpisodeIndex(_)
ExpectedEpisodeIndex(episodes) ==
    IF episodes = <<>> THEN <<>>
    ELSE [j \in 1..Len(Head(episodes).frames) |-> Head(episodes).episodeIndex]
         \o ExpectedEpisodeIndex(Tail(episodes))

TaskText(episode) ==
    IF "languageInstruction" \in DOMAIN episode.metadata
    THEN episode.metadata["languageInstruction"]
    ELSE "manipulation task"

RECURSIVE ExpectedRowTask(_)
ExpectedRowTask(episodes) ==
    IF episodes = <<>> THEN <<>>
    ELSE [j \in 1..Len(Head(episodes).frames) |-> TaskText(Head(episodes))]
         \o ExpectedRowTask(Tail(episodes))

\* The distinct task texts in first-seen order.
RECURSIVE FirstSeenTasks(_, _)
FirstSeenTasks(episodes, seen) ==
    IF episodes = <<>> THEN seen
    ELSE FirstSeenTasks(Tail(episodes),
                        IF TaskText(Head(episodes)) \in Range(seen)
                        THEN seen
                        ELSE Append(seen, TaskText(Head(episodes))))

Values(column) == [r \in 1..Len(column) |-> IF IsSome(column[r]) THEN Get(column[r]) ELSE -1]

\* C1: every column of a produced table has the same length, the total
\* number of frames of the request's episodes.
C1_ColumnsHaveTotalFrameCount ==
    \A table \in ProducedTables :
        /\ Range(table.names) = DOMAIN table.columns
        /\ \A name \in DOMAIN table.columns :
              Len(table.columns[name]) = TotalFrames(Episodes)

\* C1 witness: upload_dataset wrote a table for two frames of which the
\* second lacks a vector the first one carries.
C1_Witness ==
    \E table \in UploadTables :
        /\ TotalFrames(Episodes) = 2
        /\ \E name \in VectorFields \cap DOMAIN table.columns :
              /\ name \notin DOMAIN RequestRows[2]
              /\ table.columns[name][2] = None

\* C2: tasks.jsonl lists the distinct task texts in first-seen order with
\* indices 0, 1, 2, ...
C2_TasksInFirstSeenOrder ==
    InScratch(TasksPath) =>
        LET order == FirstSeenTasks(Episodes, <<>>)
        IN  scratch.files[TasksPath] =
                [i \in 1..Len(order) |-> [task_index |-> i - 1, task |-> order[i]]]

\* C3: the task_index of every row is the index tasks.jsonl gives to the task
\* text of the row's episode.
C3_RowTaskIndexIsRegistryIndex ==
    (InScratch(ParquetPath) /\ InScratch(TasksPath)) =>
        LET column == scratch.files[ParquetPath].columns["task_index"]
            entries == Range(scratch.files[TasksPath])
            text == ExpectedRowTask(Episodes)
        IN  \A r \in 1..Len(column) :
                \E entry \in entries :
                    /\ entry.task = text[r]
                    /\ column[r] = Some(entry.task_index)

\* A vector of some row differs in length from the same vector of the first row.
DimensionMismatch ==
    \E name \in VectorFields : \E r \in 1..Len(RequestRows) :
        /\ name \in DOMAIN RequestRows[1]
        /\ name \in DOMAIN RequestRows[r]
        /\ Len(RequestRows[r][name]) # Len(RequestRows[1][name])

\* C4: a request with a vector whose length differs from the first row's ends
\* in a failure, and no table is handed over or returned.
C4_MismatchFailsWithoutTable ==
    (pc = "done" /\ DimensionMismatch) =>
        /\ Get(response).status # 200
        /\ ~HandedOver(ParquetPath)

\* C5: what upload_folder is given contains the five artifacts.
C5_CompleteArtifactSetAtHandOff ==
    IsSome(uploaded) =>
        {ParquetPath, InfoPath, EpisodesPath, TasksPath, ReadmePath}
            \subseteq DOMAIN Get(uploaded)

UploadFailed == IsSome(response) /\ Get(response).status \in {401, 500}

\* C6: a failure before the hand-off means upload_folder was not invoked, a
\* failure response and no scratch directory after the return; upload_folder
\* is invoked only after whoami, create_repo and the file writes, in that order.
C6_AllOrNothing ==
    /\ pc = "done" => ~scratch.exists
    /\ (pc = "done" /\ Endpoint = "upload" /\ uploaded = None) => UploadFailed
    /\ raised_at \in {"whoami", "create_repo", "mkdir", "parquet", "info",
                      "episodes", "tasks", "readme"} =>
          /\ uploaded = None
          /\ "upload_folder" \notin Range(calls)
          /\ UploadFailed
          /\ ~scratch.exists
    /\ ("upload_folder" \in Range(calls) \/ IsSome(uploaded)) =>
          /\ calls = <<"whoami", "create_repo", "upload_folder">>
          /\ IsSome(uploaded)
          /\ {InfoPath, EpisodesPath, TasksPath, ReadmePath} \subseteq DOMAIN Get(uploaded)
          /\ TotalFrames(Episodes) > 0 => ParquetPath \in DOMAIN Get(uploaded)

\* C6 witness: the conversion failed after some episodes' rows were built;
\* the request returned a failure without a hand-off.
C6_Witness ==
    /\ pc = "done"
    /\ raised_at = "parquet"
    /\ DimensionMismatch
    /\ Get(response).detail = Str(ArrowInvalid)
    /\ uploaded = None

\* C7: the train split of info.json is "0:<total_frames>".
C7_SplitIsTotalFrames ==
    InScratch(InfoPath) =>
        /\ scratch.files[InfoPath].total_frames = TotalFrames(Episodes)
        /\ scratch.files[InfoPath].splits.train =
              "0:" \o ToString(scratch.files[InfoPath].total_frames)

\* C7 as amended: the train split of info.json is "0:<total_episodes>", the
\* number of episodes, while total_frames is the sum of the frame counts.
C7_SplitIsTotalEpisodes ==
    InScratch(InfoPath) =>
        /\ scratch.files[InfoPath].total_frames = TotalFrames(Episodes)
        /\ scratch.files[InfoPath].total_episodes = Len(Episodes)
        /\ scratch.files[InfoPath].splits.train =
              "0:" \o ToString(scratch.files[InfoPath].total_episodes)

\* C7 witness: info.json is written for episodes that have not one frame each.
C7_Witness ==
    /\ InScratch(InfoPath)
    /\ Len(Episodes) = 1
    /\ TotalFrames(Episodes) = 2
    /\ scratch.files[InfoPath].splits.train = "0:1"

\* C8: convert_to_parquet for a request without frames ends in a rejection
\* of the input (a 4xx status), not in an internal error, and returns no table.
C8_EmptyInputIsRejected ==
    (pc = "done" /\ Endpoint = "convert" /\ TotalFrames(Episodes) = 0) =>
        /\ Get(response).status \in 400..499
        /\ ConvertTables = {}

\* C9: in every produced table the frame_index column counts 0, 1, ... within
\* each episode, restarting per episode, and the rows of an episode are
\* contiguous and carry its episode_index.
C9_FrameIndexPerEpisode ==
    \A table \in ProducedTables :
        /\ Values(table.columns["frame_index"]) = ExpectedFrameIndex(Episodes)
        /\ Values(table.columns["episode_index"]) = ExpectedEpisodeIndex(Episodes)

\* C9 witness: a table produced for two episodes with one frame each.
C9_Witness ==
    \E table \in ProducedTables :
        /\ Len(Episodes) = 2
        /\ Len(Episodes[1].frames) = 1
        /\ Len(Episodes[2].frames) = 1
        /\ Values(table.columns["frame_index"]) = <<0, 0>>

\* C10: in every produced table, a row of a vector column is null exactly
\* when the row's frame lacks the vector, and holds a vector of the frame's
\* length otherwise.
C10_AbsentVectorIsNull ==
    \A table \in ProducedTables :
        \A name \in VectorFields \cap DOMAIN table.columns :
            /\ Len(table.columns[name]) = Len(RequestRows)
            /\ \A r \in 1..Len(RequestRows) :
                  IF name \in DOMAIN RequestRows[r]
                  THEN /\ IsSome(table.columns[name][r])
                       /\ Len(Get(table.columns[name][r])) = Len(RequestRows[r][name])
                  ELSE table.columns[name][r] = None

====
